---------------------------- MODULE Spec2Model ----------------------------
(***************************************************************************)
(* Coefficient-stability notebook                                          *)
(* (Notebooks/4 Best Practices - Coefficient Stability.ipynb).             *)
(*                                                                         *)
(* Two specifications over one set of variables:                           *)
(*                                                                         *)
(*   Spec         the specification-curve loop of the last code cell: for  *)
(*                every ranked covariate, append it to the control list,   *)
(*                call te_r2_output, record ATE / SE / R2, call delta_ml,  *)
(*                record delta*.  delta_ml's treatment nuisance loop is    *)
(*                modelled from the lines of it that the cell's recorded   *)
(*                traceback shows (fit the caller's tmodel on the training *)
(*                partition, take column 1 of predict_proba, extend W_hat).*)
(*                                                                         *)
(*   SpecFormula  the delta* formula of the first markdown cell as a pure  *)
(*                function of its inputs.                                  *)
(*                                                                         *)
(* Numbers.  Estimates are drawn from small integer grids: the fits are    *)
(* unseeded random forests, so every call may return any grid value.  R2   *)
(* is counted in units of 1/RScale, the treatment variances in units of    *)
(* 1/VScale; the formula's numerator and denominator are carried scaled by *)
(* RScale * VScale^2, which keeps their signs and zeros.                   *)
(***************************************************************************)
EXTENDS Integers, Sequences, FiniteSets

VARIABLES
    outcome_feature_list,   \* ranked covariate names (cell 5, line 146)
    R_max,                  \* user-determined R_max handed to delta_ml, 1/RScale units
    pc,                     \* position in the loop cell
    err,                    \* exception that ended the cell, "none" otherwise
    iterative_ml_list,      \* line 232
    feature_name,           \* te_model_dict_inputs['feature_name']
    iterative_ml_coeff,     \* line 233
    iterative_ml_se,        \* line 234
    iterative_ml_rsquared,  \* line 235
    iterative_delta_ml,     \* line 236
    tmodel,                 \* the caller's RandomForestClassifier object (line 219)
    nFits,                  \* calls made so far that fit models
    controlsUsed,           \* control list each te_r2_output call was given
    lastFold,               \* last fold reached by delta_ml's treatment nuisance loop
    args,                   \* inputs of the most recent delta* evaluation
    result                  \* its outcome

vars == << outcome_feature_list, R_max, pc, err, iterative_ml_list, feature_name,
           iterative_ml_coeff, iterative_ml_se, iterative_ml_rsquared,
           iterative_delta_ml, tmodel, nFits, controlsUsed, lastFold, args, result >>

-----------------------------------------------------------------------------
(* Bounds and units *)

MaxM == 3          \* longest ranked covariate list
MaxBeta == 1       \* the formula's coefficients range over -MaxBeta..MaxBeta
RScale == 2        \* R2 grid: value r stands for r / RScale
VScale == 8        \* treatment variances: value v stands for v / VScale

(* Program constants *)

n_data_splits == 5     \* te_model_dict_inputs['n_data_splits']
beta_hat == 0          \* second positional argument of the delta_ml call

(* What a fit in the loop may return: a coefficient equal to beta_hat or  *)
(* one above it; an R2 of 1 or one grid step below.                       *)
BetaVals == {beta_hat, beta_hat + 1}
R2Vals   == {RScale - 1, RScale}
SeVals   == {1}
Folds    == 0 .. (n_data_splits - 1)

(* R_max is "user determined" (first markdown cell); the cell passes 1. *)
RmaxVals == {RScale - 1, RScale}

(* Rankings: the permutations of the first m covariates, m <= MaxM. *)
PermSeqs(m) == { s \in [1 .. m -> 1 .. m] : \A i, j \in 1 .. m : i # j => s[i] # s[j] }
RankedLists == UNION { PermSeqs(m) : m \in 0 .. MaxM }

(* feature_list: every x column, in column order (line 115). *)
feature_list == [i \in 1 .. MaxM |-> i]

Last(s) == s[Len(s)]

-----------------------------------------------------------------------------
(* The delta* formula of the first markdown cell.                          *)
(* a: [beta_dot, beta_tilde, beta_hat, R_dot, R_tilde, R_max, sy, sx, tx]  *)

\* A * VScale^2
AuxA(a) ==
    LET bt == a.beta_tilde - a.beta_hat
        bd == a.beta_dot - a.beta_tilde
    IN  bt * bt * (a.tx * bd * a.sx) + bt * bt * bt * (a.tx * a.sx - a.tx * a.tx)

\* numerator * RScale * VScale^2
Numerator(a) ==
    LET bt == a.beta_tilde - a.beta_hat
        bd == a.beta_dot - a.beta_tilde
    IN  VScale * bt * (a.R_tilde - a.R_dot) * a.sy * a.tx
        + RScale * bt * a.sx * a.tx * bd * bd
        + 2 * RScale * AuxA(a)

\* faulty variant: the first term's ceiling gap taken against R_dot instead of R_tilde
DenominatorGapFromShort(a) ==
    LET bt == a.beta_tilde - a.beta_hat
        bd == a.beta_dot - a.beta_tilde
    IN  VScale * (a.R_max - a.R_dot) * a.sy * bd * a.sx
        + VScale * bt * (a.R_max - a.R_tilde) * a.sy * (a.sx - a.tx)
        + RScale * AuxA(a)

\* denominator * RScale * VScale^2
Denominator(a) ==
    LET bt == a.beta_tilde - a.beta_hat
        bd == a.beta_dot - a.beta_tilde
    IN  VScale * (a.R_max - a.R_tilde) * a.sy * bd * a.sx
        + VScale * bt * (a.R_max - a.R_tilde) * a.sy * (a.sx - a.tx)
        + RScale * AuxA(a)

(* The quotient as floating point gives it: a finite number, or for a zero *)
(* denominator +-inf (nan for 0/0).                                        *)
Quotient(a) ==
    IF Denominator(a) # 0 THEN "finite"
    ELSE IF Numerator(a) # 0 THEN "inf" ELSE "nan"

NoArgs == [step |-> 0, beta_dot |-> 0, beta_tilde |-> 0, beta_hat |-> 0,
           R_dot |-> 0, R_tilde |-> 0, R_max |-> 0, sy |-> 0, sx |-> 0, tx |-> 0]


NoFold == [fold |-> -1, classes |-> 0, outcome |-> "none"]
Unfit  == [step |-> 0, fold |-> -1]

-----------------------------------------------------------------------------
(* The specification-curve loop (last code cell) *)

Init ==
    /\ outcome_feature_list \in RankedLists
    /\ R_max \in RmaxVals
    /\ pc = "loop"
    /\ err = "none"
    /\ iterative_ml_list = << >>
    /\ feature_name = feature_list
    /\ iterative_ml_coeff = << >>
    /\ iterative_ml_se = << >>
    /\ iterative_ml_rsquared = << >>
    /\ iterative_delta_ml = << >>
    /\ tmodel = Unfit
    /\ nFits = 0
    /\ controlsUsed = << >>
    /\ lastFold = NoFold
    /\ args = NoArgs
    /\ result = "none"

\* faulty variant: iterative_ml_list.insert(0, f)
InsertFeatureFirst(lst, f) == << f >> \o lst

\* iterative_ml_list.append(f)
AppendFeature(lst, f) == Append(lst, f)

(* for f in outcome_feature_list: iterative_ml_list.append(f);             *)
(* te_model_dict_inputs['feature_name'] = iterative_ml_list                *)
LoopNext ==
    /\ pc = "loop"
    /\ Len(iterative_ml_list) < Len(outcome_feature_list)
    /\ LET f == outcome_feature_list[Len(iterative_ml_list) + 1]
       IN  /\ iterative_ml_list' = AppendFeature(iterative_ml_list, f)
           /\ feature_name' = iterative_ml_list'
    /\ pc' = "te"
    /\ UNCHANGED << outcome_feature_list, R_max, err, iterative_ml_coeff,
                    iterative_ml_se, iterative_ml_rsquared, iterative_delta_ml,
                    tmodel, nFits, controlsUsed, lastFold, args, result >>

(* a = te_r2_output(st.ate.dml.dml_plm, te_model_dict_inputs, ymodel) and  *)
(* the three appends.  The estimator fits unseeded forests on the control  *)
(* list held in feature_name, so a is any grid value.  What dml_plm does   *)
(* to the model objects is not in the notebook: tmodel is left as it is.   *)
TeR2Output ==
    /\ pc = "te"
    /\ \E ate \in BetaVals, se \in SeVals, rsquared \in R2Vals :
          /\ iterative_ml_coeff' = Append(iterative_ml_coeff, ate)
          /\ iterative_ml_se' = Append(iterative_ml_se, se)
          /\ iterative_ml_rsquared' = Append(iterative_ml_rsquared, rsquared)
    /\ controlsUsed' = Append(controlsUsed, feature_name)
    /\ nFits' = nFits + 1
    /\ pc' = "delta"
    /\ UNCHANGED << outcome_feature_list, R_max, err, iterative_ml_list, feature_name,
                    iterative_delta_ml, tmodel, lastFold, args, result >>

(* model_on_train.predict_proba(...)[:,1]: the matrix has one column per   *)
(* class seen in training, so column 1 exists only with two classes.       *)
FoldOutcome(classes) == IF classes >= 2 THEN "extended" ELSE "IndexError"

(* delta_ml, a fold r whose training partition holds one treatment class:  *)
(* the caller's tmodel is fitted on it, then [:,1] raises IndexError and   *)
(* the cell ends (the cell's recorded output).                             *)
DeltaMlDegenerateFold ==
    /\ pc = "delta"
    /\ \E r \in Folds :
          /\ tmodel' = [step |-> Len(iterative_ml_list), fold |-> r]
          /\ lastFold' = [fold |-> r, classes |-> 1, outcome |-> FoldOutcome(1)]
    /\ nFits' = nFits + 1
    /\ err' = "IndexError"
    /\ pc' = "aborted"
    /\ UNCHANGED << outcome_feature_list, R_max, iterative_ml_list, feature_name,
                    iterative_ml_coeff, iterative_ml_se, iterative_ml_rsquared,
                    iterative_delta_ml, controlsUsed, args, result >>

(* delta_ml, every training partition with both classes: tmodel is fitted  *)
(* fold after fold; beta_tilde and R_tilde come from delta_ml's own call   *)
(* of te_model (it is handed the estimator, not a); d is the formula's     *)
(* quotient; iterative_delta_ml.append(d).                                 *)
DeltaMlReturns ==
    /\ pc = "delta"
    /\ tmodel' = [step |-> Len(iterative_ml_list), fold |-> n_data_splits - 1]
    /\ lastFold' = [fold |-> n_data_splits - 1, classes |-> 2, outcome |-> FoldOutcome(2)]
    /\ \E bd \in BetaVals, bt \in BetaVals, rt \in R2Vals :
          args' = [step |-> Len(iterative_ml_list),
                   beta_dot |-> bd, beta_tilde |-> bt, beta_hat |-> beta_hat,
                   R_dot |-> 0, R_tilde |-> rt, R_max |-> R_max,
                   sy |-> 1, sx |-> 2, tx |-> 1]
    /\ result' = Quotient(args')
    /\ iterative_delta_ml' = Append(iterative_delta_ml, result')
    /\ nFits' = nFits + 1
    /\ pc' = "loop"
    /\ UNCHANGED << outcome_feature_list, R_max, err, iterative_ml_list, feature_name,
                    iterative_ml_coeff, iterative_ml_se, iterative_ml_rsquared,
                    controlsUsed >>

(* The kernel is interrupted while the cell runs: KeyboardInterrupt ends   *)
(* the cell and the lists stay as they are.                                *)
Interrupt ==
    /\ pc \in {"loop", "te", "delta"}
    /\ err' = "KeyboardInterrupt"
    /\ pc' = "aborted"
    /\ UNCHANGED << outcome_feature_list, R_max, iterative_ml_list, feature_name,
                    iterative_ml_coeff, iterative_ml_se, iterative_ml_rsquared,
                    iterative_delta_ml, tmodel, nFits, controlsUsed, lastFold,
                    args, result >>

(* The loop is exhausted; the four np.array conversions keep every length. *)
LoopExit ==
    /\ pc = "loop"
    /\ Len(iterative_ml_list) = Len(outcome_feature_list)
    /\ pc' = "done"
    /\ UNCHANGED << outcome_feature_list, R_max, err, iterative_ml_list, feature_name,
                    iterative_ml_coeff, iterative_ml_se, iterative_ml_rsquared,
                    iterative_delta_ml, tmodel, nFits, controlsUsed, lastFold,
                    args, result >>

Next ==
    \/ LoopNext
    \/ TeR2Output
    \/ DeltaMlDegenerateFold
    \/ DeltaMlReturns
    \/ Interrupt
    \/ LoopExit

Spec == Init /\ [][Next]_vars

-----------------------------------------------------------------------------
(* The delta* formula as a pure function *)

FormulaBetas == (0 - MaxBeta) .. MaxBeta
FormulaR2s   == 0 .. RScale

FormulaInputs ==
    { [step |-> 0, beta_dot |-> bd, beta_tilde |-> bt, beta_hat |-> bh,
       R_dot |-> rd, R_tilde |-> rt, R_max |-> rm, sy |-> sy, sx |-> sx, tx |-> tx] :
         bd \in FormulaBetas, bt \in FormulaBetas, bh \in {0, 1},
         rd \in FormulaR2s, rt \in FormulaR2s, rm \in FormulaR2s,
         sy \in {1, 2}, sx \in {1, 2}, tx \in {1, 2} }

InitFormula ==
    /\ outcome_feature_list = << >>
    /\ args \in { a \in FormulaInputs : a.tx <= a.sx }
    /\ R_max = args.R_max
    /\ pc = "formula"
    /\ err = "none"
    /\ iterative_ml_list = << >>
    /\ feature_name = feature_list
    /\ iterative_ml_coeff = << >>
    /\ iterative_ml_se = << >>
    /\ iterative_ml_rsquared = << >>
    /\ iterative_delta_ml = << >>
    /\ tmodel = Unfit
    /\ nFits = 0
    /\ controlsUsed = << >>
    /\ lastFold = NoFold
    /\ result = "none"

EvaluateDelta ==
    /\ pc = "formula"
    /\ result = "none"
    /\ result' = Quotient(args)
    /\ UNCHANGED << outcome_feature_list, R_max, pc, err, iterative_ml_list,
                    feature_name, iterative_ml_coeff, iterative_ml_se,
                    iterative_ml_rsquared, iterative_delta_ml, tmodel, nFits,
                    controlsUsed, lastFold, args >>

NextFormula == EvaluateDelta

SpecFormula == InitFormula /\ [][NextFormula]_vars

-----------------------------------------------------------------------------
(* Properties *)

AllLists == << iterative_ml_list, iterative_ml_coeff, iterative_ml_se,
               iterative_ml_rsquared, iterative_delta_ml >>

SameLengths == \A i, j \in 1 .. Len(AllLists) : Len(AllLists[i]) = Len(AllLists[j])

(* C1: the control list given to step i's estimation is the first i names  *)
(* of the ranked list, in ranked order; the running list is always a       *)
(* prefix of the ranking (it grows by the next ranked name and is never    *)
(* shrunk or reordered), and the estimator inputs hold that same list.     *)
C1_ControlSetIsRankedPrefix ==
    /\ \A i \in 1 .. Len(controlsUsed) :
          controlsUsed[i] = SubSeq(outcome_feature_list, 1, i)
    /\ Len(iterative_ml_list) <= Len(outcome_feature_list)
    /\ iterative_ml_list = SubSeq(outcome_feature_list, 1, Len(iterative_ml_list))
    /\ Len(controlsUsed) = Len(iterative_ml_coeff)
    /\ pc \in {"te", "delta"} => feature_name = iterative_ml_list
    /\ pc = "te" => Len(iterative_ml_list) = Len(controlsUsed) + 1
    /\ pc \in {"delta", "loop", "done"} => Len(iterative_ml_list) = Len(controlsUsed)

(* C1 witness: a finished run over a ranking of three names that is not in *)
(* column order, all three steps estimated.                                *)
C1_Witness ==
    /\ pc = "done"
    /\ Len(controlsUsed) = 3
    /\ outcome_feature_list[1] # 1
    /\ controlsUsed[2] = SubSeq(outcome_feature_list, 1, 2)

(* C2: a run that ends for any reason other than a cancellation holds one  *)
(* record per control-set size 1..M in every result sequence.              *)
C2_EndedRunHasEveryRecord ==
    (pc \in {"done", "aborted"} /\ err # "KeyboardInterrupt")
        => \A i \in 1 .. Len(AllLists) : Len(AllLists[i]) = Len(outcome_feature_list)

(* C3: when a fold's training partition holds fewer than two treatment     *)
(* values, the nuisance loop does not raise: the fold gets the fallback    *)
(* probability and is marked degenerate.                                   *)
C3_DegenerateFoldFallsBack ==
    (lastFold.fold >= 0 /\ lastFold.classes < 2)
        => (err # "IndexError" /\ lastFold.outcome = "fallback")

(* C4: wherever the run stops early, the five per-step sequences have the  *)
(* same length: every step returned is a complete record.                  *)
C4_StoppedRunHoldsCompleteSteps == pc = "aborted" => SameLengths

RmaxBelowRtilde ==
    /\ Len(iterative_ml_rsquared) > 0
    /\ R_max < Last(iterative_ml_rsquared)

C6_ZeroDenominatorIsUndefined ==
    (args.step > 0 /\ Denominator(args) = 0)
        => /\ result = "undefined"
           /\ iterative_delta_ml[args.step] \notin {"finite", "inf", "nan"}

(* C7 as stated: evaluated at R_max = R-tilde, the denominator is zero and *)
(* the result is not a finite value, whatever the other inputs.            *)
C7_DenominatorZeroAtCeiling ==
    (result # "none" /\ args.R_max = args.R_tilde)
        => (Denominator(args) = 0 /\ result # "finite")

(* C7 amended: evaluated at R_max = R-tilde, the denominator equals the    *)
(* auxiliary term A; the result is non-finite exactly when A = 0, which    *)
(* includes every input with beta-tilde = beta-hat.                        *)
C7_DenominatorAtCeilingIsA ==
    (result # "none" /\ args.R_max = args.R_tilde)
        => /\ Denominator(args) = RScale * AuxA(args)
           /\ (result # "finite") <=> (AuxA(args) = 0)
           /\ args.beta_tilde = args.beta_hat => result = "nan"

(* C7 witness: an evaluation at R_max = R-tilde with A # 0 and R-tilde     *)
(* above R-dot, returning a finite value.                                  *)
C7_Witness ==
    /\ pc = "formula"
    /\ result = "finite"
    /\ args.R_max = args.R_tilde
    /\ args.R_tilde > args.R_dot
    /\ args.beta_dot # args.beta_tilde
    /\ AuxA(args) # 0

(* C9: the caller's treatment-model template is never fitted in place.     *)
C9_TemplateNeverFitted == tmodel = Unfit

(* C10: the beta-tilde and R-tilde fed to a step's delta* are the ATE and  *)
(* R-squared recorded for that step.                                       *)
C10_DeltaFromRecordedEstimate ==
    args.step > 0
        => /\ args.beta_tilde = iterative_ml_coeff[args.step]
           /\ args.R_tilde = iterative_ml_rsquared[args.step]

=============================================================================
